---------------------------- MODULE Spec2Model ----------------------------
(***************************************************************************)
(* The reachability engine state_space_t of reachability.hpp: one engine   *)
(* instance, on which the client calls check() up to MaxCalls times.       *)
(*                                                                         *)
(* Configurations are the numbers 0 .. NumConfigs-1.  The client-supplied  *)
(* successor generator, invariant, goal predicate and cost function are    *)
(* inputs fixed at construction and drawn from small sets in Init.         *)
(* check() is followed statement by statement: pc is its position.         *)
(*                                                                         *)
(* The three client programs crossing.cpp, frogs.cpp and family.cpp        *)
(* instantiate the same engine with their own state type, transitions,     *)
(* invariant, goal and cost function: MainSpec runs the engine on them.    *)
(***************************************************************************)
EXTENDS Integers, Sequences, FiniteSets

\* ------------------------------------------------------------------ bounds
NumConfigs == 3       \* configurations of the client's state space
MaxOut == 2           \* transitions the successor generator emits per configuration
MaxCalls == 2         \* invocations of check() on the one instance
MaxInitialCost == 1   \* initial costs 0 .. MaxInitialCost given to the constructor
CostCap == 2          \* the largest cost the client's capped cost function returns
NumOrderConfigs == 4  \* configurations of the state spaces of OrderSpec

Configs == 0 .. (NumConfigs - 1)

VARIABLES
    \* the instantiation of the template
    client,             \* "graph", or the program: "crossing", "frogs", "family"
    \* members of state_space_t (fixed by the constructor)
    initial_state,      \* State_t initial_state
    initial_cost,       \* Cost_t initial_cost
    transitions,        \* the client's successor generator: Configs -> Seq(Configs)
    invariant,          \* the configurations the client's invariant accepts
    cost_fn,            \* which client cost function the instance was built with
    \* member of state_space_t that check() writes
    previous_cost,      \* Cost_t previous_cost
    \* arguments of check()
    goal,               \* the configurations goal_pred accepts
    search_order,       \* search_order_t
    \* locals of check()
    waiting,            \* std::deque<State_t>
    passed,             \* std::vector<State_t>
    trace,              \* std::map<State_t, State_t>
    curr_state,         \* State_t curr_state
    pending,            \* the successors of curr_state the for loop has not reached yet
    pc,                 \* "ready", "while", "for", "returned", "thrown"
    solution,           \* the std::list<State_t> check() returned
    \* history
    selected,           \* the configurations popstate returned, in this invocation
    calls,              \* invocations of check() so far
    history             \* the outcome of every finished invocation, in order

members == <<client, initial_state, initial_cost, transitions, invariant, cost_fn>>
args == <<goal, search_order>>
locals == <<waiting, passed, trace, curr_state, pending>>
vars == <<client, initial_state, initial_cost, transitions, invariant, cost_fn,
          previous_cost, goal, search_order, waiting, passed, trace,
          curr_state, pending, pc, solution, selected, calls, history>>

\* ----------------------------------------------------------------- helpers
Range(s) == {s[i] : i \in 1 .. Len(s)}

\* std::find(first, last, x) != last
Contains(s, x) == \E i \in 1 .. Len(s) : s[i] = x

\* The sequences without repetition of at most MaxOut configurations.
SuccLists ==
    UNION {{s \in [1 .. n -> Configs] : \A i, j \in 1 .. n : i # j => s[i] # s[j]}
           : n \in 0 .. MaxOut}

\* enum class search_order_t
SearchOrders == {"depth_first", "breadth_first", "cost_guided"}

\* The cost functions a client builds the instance with.
CostFunctions == {"default", "noise", "capped", "gap"}

\* ------------------------------------------------------------- crossing.cpp
\* enum actor { cabbage, goat, wolf }, as indices of actors_t counted from 1
cabbage == 1
goat == 2
wolf == 3

\* actors_t{}: every actor on shore1 (the first enumerator of pos_t)
crossing_initial == <<"shore1", "shore1", "shore1">>

\* The transitions of actor i, applied to actors, in the order of the switch.
crossing_moves(actors, i) ==
    CASE actors[i] = "shore1" -> <<[actors EXCEPT ![i] = "travel"]>>
      [] actors[i] = "travel" -> <<[actors EXCEPT ![i] = "shore1"],
                                   [actors EXCEPT ![i] = "shore2"]>>
      [] actors[i] = "shore2" -> <<[actors EXCEPT ![i] = "travel"]>>

\* successors<actors_t>(transitions): actor by actor
crossing_transitions(actors) ==
    crossing_moves(actors, cabbage) \o crossing_moves(actors, goat)
        \o crossing_moves(actors, wolf)

\* is_valid without the rule that keeps the wolf from the goat.
is_valid_wolf_fed(actors) ==
    IF Cardinality({i \in 1 .. 3 : actors[i] = "travel"}) > 1 THEN FALSE
    ELSE IF actors[goat] = actors[cabbage] /\ actors[wolf] = "travel" THEN FALSE
    ELSE TRUE

\* bool is_valid(const actors_t& actors)
is_valid(actors) ==
    IF Cardinality({i \in 1 .. 3 : actors[i] = "travel"}) > 1 THEN FALSE
    ELSE IF actors[goat] = actors[wolf] /\ actors[cabbage] = "travel" THEN FALSE
    ELSE IF actors[goat] = actors[cabbage] /\ actors[wolf] = "travel" THEN FALSE
    ELSE TRUE

\* The goal lambda of solve(): all actors are on shore2.
crossing_goal(actors) ==
    Cardinality({i \in 1 .. 3 : actors[i] = "shore2"}) = 3

\* ---------------------------------------------------------------- frogs.cpp
\* solve(frogs): start has the greens on the left, finish has them on the right
start(frogs) ==
    [k \in 1 .. (2 * frogs + 1) |->
        IF k <= frogs THEN "green" ELSE IF k = frogs + 1 THEN "empty" ELSE "brown"]

finish(frogs) ==
    [k \in 1 .. (2 * frogs + 1) |->
        IF k <= frogs THEN "brown" ELSE IF k = frogs + 1 THEN "empty" ELSE "green"]

\* The index of the first empty stone, counted from 1; Len(stones) + 1 if none.
find_empty(stones) ==
    IF \E i \in 1 .. Len(stones) : stones[i] = "empty"
    THEN CHOOSE i \in 1 .. Len(stones) :
            /\ stones[i] = "empty"
            /\ \A j \in 1 .. (i - 1) : stones[j] # "empty"
    ELSE Len(stones) + 1

\* transitions in which no brown frog jumps over another frog.
frogs_transitions_no_brown_jump(stones) ==
    LET i == find_empty(stones)
    IN  IF Len(stones) < 2 \/ i = Len(stones) + 1
        THEN <<>>
        ELSE (IF i > 1 /\ stones[i - 1] = "green"
              THEN <<[stones EXCEPT ![i - 1] = "empty", ![i] = "green"]>>
              ELSE <<>>)
             \o (IF i > 2 /\ stones[i - 2] = "green"
                 THEN <<[stones EXCEPT ![i - 2] = "empty", ![i] = "green"]>>
                 ELSE <<>>)
             \o (IF i < Len(stones) /\ stones[i + 1] = "brown"
                 THEN <<[stones EXCEPT ![i + 1] = "empty", ![i] = "brown"]>>
                 ELSE <<>>)

\* transitions that emit the brown frogs' moves before the green frogs' ones.
frogs_transitions_brown_first(stones) ==
    LET i == find_empty(stones)
    IN  IF Len(stones) < 2 \/ i = Len(stones) + 1
        THEN <<>>
        ELSE (IF i < Len(stones) /\ stones[i + 1] = "brown"
              THEN <<[stones EXCEPT ![i + 1] = "empty", ![i] = "brown"]>>
              ELSE <<>>)
             \o (IF i < Len(stones) - 1 /\ stones[i + 2] = "brown"
                 THEN <<[stones EXCEPT ![i + 2] = "empty", ![i] = "brown"]>>
                 ELSE <<>>)
             \o (IF i > 1 /\ stones[i - 1] = "green"
                 THEN <<[stones EXCEPT ![i - 1] = "empty", ![i] = "green"]>>
                 ELSE <<>>)
             \o (IF i > 2 /\ stones[i - 2] = "green"
                 THEN <<[stones EXCEPT ![i - 2] = "empty", ![i] = "green"]>>
                 ELSE <<>>)

\* successors<stones_t>(transitions): a green steps or jumps right into the
\* empty stone, then a brown steps or jumps left into it.
frogs_transitions(stones) ==
    LET i == find_empty(stones)
    IN  IF Len(stones) < 2 \/ i = Len(stones) + 1
        THEN <<>>
        ELSE (IF i > 1 /\ stones[i - 1] = "green"
              THEN <<[stones EXCEPT ![i - 1] = "empty", ![i] = "green"]>>
              ELSE <<>>)
             \o (IF i > 2 /\ stones[i - 2] = "green"
                 THEN <<[stones EXCEPT ![i - 2] = "empty", ![i] = "green"]>>
                 ELSE <<>>)
             \o (IF i < Len(stones) /\ stones[i + 1] = "brown"
                 THEN <<[stones EXCEPT ![i + 1] = "empty", ![i] = "brown"]>>
                 ELSE <<>>)
             \o (IF i < Len(stones) - 1 /\ stones[i + 2] = "brown"
                 THEN <<[stones EXCEPT ![i + 2] = "empty", ![i] = "brown"]>>
                 ELSE <<>>)

\* The goal lambda of solve() and explain(): state == finish, where finish has
\* as many stones as the initial state.
frogs_goal(stones) == stones = finish((Len(initial_state) - 1) \div 2)

\* operator<<(std::ostream&, const stones_t&): one letter for every stone.
print_stones(stones) ==
    [k \in 1 .. Len(stones) |->
        CASE stones[k] = "empty" -> "_"
          [] stones[k] = "green" -> "G"
          [] stones[k] = "brown" -> "B"]

\* The sample output at the end of frogs.cpp: the lines "State of 5 stones:"
\* of the breadth-first run and of the depth-first run with two frogs per side.
sample_breadth_first ==
    << <<"G", "G", "_", "B", "B">>,
       <<"G", "_", "G", "B", "B">>,
       <<"G", "B", "G", "_", "B">>,
       <<"G", "B", "G", "B", "_">>,
       <<"G", "B", "_", "B", "G">>,
       <<"_", "B", "G", "B", "G">>,
       <<"B", "_", "G", "B", "G">>,
       <<"B", "B", "G", "_", "G">>,
       <<"B", "B", "_", "G", "G">> >>

sample_depth_first ==
    << <<"G", "G", "_", "B", "B">>,
       <<"G", "G", "B", "_", "B">>,
       <<"G", "_", "B", "G", "B">>,
       <<"_", "G", "B", "G", "B">>,
       <<"B", "G", "_", "G", "B">>,
       <<"B", "G", "B", "G", "_">>,
       <<"B", "G", "B", "_", "G">>,
       <<"B", "_", "B", "G", "G">>,
       <<"B", "B", "_", "G", "G">> >>

\* --------------------------------------------------------------- family.cpp
\* The enumerators of person_t, as indices of state_t::persons counted from 1
mother == 1
father == 2
daughter1 == 3
daughter2 == 4
son1 == 5
son2 == 6
policeman == 7
prisoner == 8

\* uint16_t capacity{2}
capacity == 2

\* uint16_t arithmetic wraps at 2^16
Uint16 == 65536

\* state_t{}: the boat at shore1 with no passengers, every person on shore1
family_initial ==
    [boat |-> [pos |-> "shore1", capacity |-> capacity, passengers |-> 0],
     persons |-> [i \in 1 .. 8 |-> "shore1"]]

\* cost_t{}
family_initial_cost == [depth |-> 0, noise |-> 0]

\* The boat arrives and everybody steps on the shore, the count of passengers
\* left as it was.
arrive_keeps_passengers(s, shore) ==
    [boat |-> [s.boat EXCEPT !.pos = shore],
     persons |-> [i \in 1 .. 8 |->
                     IF s.persons[i] = "onboard" THEN shore ELSE s.persons[i]]]

\* The boat arrives: no passengers, everybody on board steps on the shore.
arrive(s, shore) ==
    [boat |-> [s.boat EXCEPT !.pos = shore, !.passengers = 0],
     persons |-> [i \in 1 .. 8 |->
                     IF s.persons[i] = "onboard" THEN shore ELSE s.persons[i]]]

\* Person i boards the boat: ++state.boat.passengers
board(s, i) ==
    [boat |-> [s.boat EXCEPT !.passengers = (s.boat.passengers + 1) % Uint16],
     persons |-> [s.persons EXCEPT ![i] = "onboard"]]

\* Person i leaves the boat: --state.boat.passengers
leave(s, i, shore) ==
    [boat |-> [s.boat EXCEPT !.passengers = (s.boat.passengers - 1) % Uint16],
     persons |-> [s.persons EXCEPT ![i] = shore]]

\* The switch on s.boat.pos of transitions
boat_moves(s) ==
    CASE s.boat.pos \in {"shore1", "shore2"} ->
             IF s.boat.passengers > 0
             THEN <<[s EXCEPT !.boat.pos = "travel"]>>
             ELSE <<>>
      [] s.boat.pos = "travel" -> <<arrive(s, "shore1"), arrive(s, "shore2")>>

\* The switch on s.persons[i].pos of transitions
person_moves(s, i) ==
    CASE s.persons[i] = "shore1" ->
             IF s.boat.pos = "shore1" THEN <<board(s, i)>> ELSE <<>>
      [] s.persons[i] = "shore2" ->
             IF s.boat.pos = "shore2" THEN <<board(s, i)>> ELSE <<>>
      [] s.persons[i] = "onboard" ->
             IF s.boat.pos = "shore1" THEN <<leave(s, i, "shore1")>>
             ELSE IF s.boat.pos = "shore2" THEN <<leave(s, i, "shore2")>>
             ELSE <<>>

\* The for loop of transitions, from person i on
RECURSIVE persons_moves(_, _)
persons_moves(s, i) ==
    IF i > 8 THEN <<>> ELSE person_moves(s, i) \o persons_moves(s, i + 1)

\* successors<state_t>(transitions): the boat's moves, then person by person
family_transitions(s) == boat_moves(s) \o persons_moves(s, 1)

\* bool river_crossing_valid(const state_t& s)
river_crossing_valid(s) ==
    LET p == s.persons
        onboard(i) == p[i] = "onboard"
        \* child c is on the boat without an adult, or with another child or
        \* the prisoner
        unattended(others) ==
            s.boat.passengers = 1 \/ \E o \in others : onboard(o)
        children_rule ==
            IF onboard(daughter1)
            THEN unattended({daughter2, son1, son2, prisoner})
            ELSE IF onboard(daughter2)
            THEN unattended({daughter1, son1, son2, prisoner})
            ELSE IF onboard(son1)
            THEN unattended({daughter1, daughter2, son2, prisoner})
            ELSE IF onboard(son2)
            THEN unattended({daughter1, daughter2, son1, prisoner})
            ELSE FALSE
        prisoner_with_family ==
            /\ p[prisoner] # p[policeman]
            /\ \E o \in {daughter1, daughter2, son1, son2, mother, father} :
                  p[o] = p[prisoner]
        prisoner_on_boat == onboard(prisoner) /\ s.boat.passengers < 2
    IN  IF s.boat.passengers > s.boat.capacity THEN FALSE
        ELSE IF s.boat.pos = "travel" /\ children_rule THEN FALSE
        ELSE IF s.boat.pos = "travel" /\ prisoner_with_family THEN FALSE
        ELSE IF s.boat.pos = "travel" /\ prisoner_on_boat THEN FALSE
        ELSE IF p[daughter1] = p[father] /\ p[daughter1] # p[mother] THEN FALSE
        ELSE IF p[daughter2] = p[father] /\ p[daughter2] # p[mother] THEN FALSE
        ELSE IF p[son1] = p[mother] /\ p[son1] # p[father] THEN FALSE
        ELSE IF p[son2] = p[mother] /\ p[son2] # p[father] THEN FALSE
        ELSE TRUE

\* bool goal(const state_t& s)
family_goal(s) == \A i \in 1 .. 8 : s.persons[i] = "shore2"

\* The cost lambdas of main: depth, noise, and the different noise
depth_cost(state, prev_cost) ==
    [depth |-> prev_cost.depth + 1, noise |-> prev_cost.noise]

\* noise_cost with the penalties of the two sons exchanged.
noise_cost_sons_exchanged(state, prev_cost) ==
    [depth |-> prev_cost.depth,
     noise |-> prev_cost.noise
               + (IF state.persons[son1] = "shore1" THEN 1 ELSE 0)
               + (IF state.persons[son2] = "shore1" THEN 2 ELSE 0)]

noise_cost(state, prev_cost) ==
    [depth |-> prev_cost.depth,
     noise |-> prev_cost.noise
               + (IF state.persons[son1] = "shore1" THEN 2 ELSE 0)
               + (IF state.persons[son2] = "shore1" THEN 1 ELSE 0)]

different_noise_cost(state, prev_cost) ==
    [depth |-> prev_cost.depth,
     noise |-> prev_cost.noise
               + (IF state.persons[son1] = "shore1" THEN 1 ELSE 0)
               + (IF state.persons[son2] = "shore1" THEN 2 ELSE 0)]

\* bool cost_t::operator<(const cost_t& other)
cost_less(this, other) ==
    IF this.depth < other.depth THEN TRUE
    ELSE IF other.depth < this.depth THEN FALSE
    ELSE this.noise < other.noise

\* ------------------------------------------------- client-supplied functions
\* successors<state_t>(transitions): the list of the states the transitions of
\* current_state lead to, in the order the generator emits them.
successors_function(current_state) ==
    CASE client = "graph" -> transitions[current_state]
      [] client = "crossing" -> crossing_transitions(current_state)
      [] client = "frogs" -> frogs_transitions(current_state)
      [] client = "family" -> family_transitions(current_state)

\* Invariant_type invariant; frogs.cpp gives none: default_invariant
Invariant(state) ==
    CASE client = "graph" -> state \in invariant
      [] client = "crossing" -> is_valid(state)
      [] client = "frogs" -> TRUE
      [] client = "family" -> river_crossing_valid(state)

\* goal_pred
goal_pred(state) ==
    CASE client = "graph" -> state \in goal
      [] client = "crossing" -> crossing_goal(state)
      [] client = "frogs" -> frogs_goal(state)
      [] client = "family" -> family_goal(state)

\* Cost_fn cost_function.  "default" is default_cost_function; "noise" adds a
\* penalty that depends on the state to the previous cost (the noise cost of
\* family.cpp, on numbers); "capped" does the same up to a largest cost; "gap" ranks
\* a state by its distance to the previous cost; the "family_" ones are the
\* lambdas of family.cpp.
cost_function(state, prev_cost) ==
    CASE cost_fn = "default" -> 0
      [] cost_fn = "family_depth" -> depth_cost(state, prev_cost)
      [] cost_fn = "family_noise" -> noise_cost(state, prev_cost)
      [] cost_fn = "family_different_noise" -> different_noise_cost(state, prev_cost)
      [] cost_fn = "noise" -> prev_cost + state
      [] cost_fn = "capped" -> IF prev_cost + state > CostCap THEN CostCap
                                                              ELSE prev_cost + state
      [] cost_fn = "gap" -> IF state >= prev_cost THEN state - prev_cost
                                                  ELSE prev_cost - state

\* ------------------------------------------------------------------ popstate
\* operator< of Cost_t
Less(a, b) == IF client = "family" THEN cost_less(a, b) ELSE a < b

\* The last index holding the smallest cost.
MinIndexLast(costs) ==
    CHOOSE i \in 1 .. Len(costs) :
        /\ \A j \in 1 .. Len(costs) : ~Less(costs[j], costs[i])
        /\ \A j \in (i + 1) .. Len(costs) : Less(costs[i], costs[j])

\* std::min_element over costs: the first index holding the smallest cost.
MinIndex(costs) ==
    CHOOSE i \in 1 .. Len(costs) :
        /\ \A j \in 1 .. Len(costs) : ~Less(costs[j], costs[i])
        /\ \A j \in 1 .. (i - 1) : Less(costs[i], costs[j])

\* waiting.erase(waiting.begin() + index), with index counted from 1
Erase(w, index) == SubSeq(w, 1, index - 1) \o SubSeq(w, index + 1, Len(w))

\* depth_first taking the front of waiting instead.
PopBackFromFront(w, prev) ==
    [state |-> w[1], waiting |-> Tail(w), previous_cost |-> prev]

\* depth_first: state = waiting.back(); waiting.pop_back()
PopBack(w, prev) ==
    [state |-> w[Len(w)], waiting |-> SubSeq(w, 1, Len(w) - 1), previous_cost |-> prev]

\* breadth_first taking the back of waiting instead.
PopFrontFromBack(w, prev) ==
    [state |-> w[Len(w)], waiting |-> SubSeq(w, 1, Len(w) - 1), previous_cost |-> prev]

\* breadth_first: state = waiting.front(); waiting.pop_front()
PopFront(w, prev) ==
    [state |-> w[1], waiting |-> Tail(w), previous_cost |-> prev]

\* cost_guided: the cost of every waiting state is computed with the one
\* previous_cost; the first state of smallest cost is erased and returned, and
\* previous_cost becomes its cost.
PopCheapest(w, prev) ==
    LET costs == [i \in 1 .. Len(w) |-> cost_function(w[i], prev)]
        index == MinIndex(costs)
    IN  [state |-> w[index], waiting |-> Erase(w, index), previous_cost |-> costs[index]]

\* State_t popstate(std::deque<State_t> &waiting, const search_order_t &search_order)
\* (w is not empty); the result holds the returned state, waiting and
\* previous_cost as popstate leaves them.
popstate(w, order, prev) ==
    CASE order = "depth_first" -> PopBack(w, prev)
      [] order = "breadth_first" -> PopFront(w, prev)
      [] order = "cost_guided" -> PopCheapest(w, prev)

\* --------------------------------------------------- get_solution_from_trace
\* State_t{}: what std::map::operator[] inserts and returns for a missing key.
default_state ==
    CASE client = "graph" -> 0
      [] client = "crossing" -> crossing_initial
      [] client = "frogs" -> <<>>
      [] client = "family" -> family_initial

\* trace[curr_state] of std::map
TraceAt(t, state) == IF state \in DOMAIN t THEN t[state] ELSE default_state

\* trace[succ] = curr_state
TracePut(t, succ, curr) ==
    [x \in (DOMAIN t) \cup {succ} |-> IF x = succ THEN curr ELSE t[x]]

\* The while loop of get_solution_from_trace: sol starts with state; while state
\* is not the initial state, its trace entry is pushed to the front.  fuel
\* bounds the walk, which in the code has no bound.
RECURSIVE Backtrack(_, _, _, _)
Backtrack(t, state, sol, fuel) ==
    IF state = initial_state \/ fuel = 0
    THEN sol
    ELSE Backtrack(t, TraceAt(t, state), <<TraceAt(t, state)>> \o sol, fuel - 1)

get_solution_from_trace(t, state) ==
    Backtrack(t, state, <<state>>, Cardinality(DOMAIN t) + 1)

\* --------------------------------------------------------------------- check
\* Mutant of WaitingEmpty: the loop stops one state early.
WaitingEmptyOffByOne(w) == Len(w) <= 1

\* waiting.empty(), the negated condition of the while loop
WaitingEmpty(w) == w = <<>>

\* Mutants of Admissible: the condition without its test of the invariant, of
\* waiting, of passed.
AdmissibleNoInvariant(succ, w, p) == ~Contains(w, succ) /\ ~Contains(p, succ)

AdmissibleNoWaiting(succ, w, p) == Invariant(succ) /\ ~Contains(p, succ)

AdmissibleNoPassed(succ, w, p) == Invariant(succ) /\ ~Contains(w, succ)

\* The condition of the if inside the for loop: succ upholds the invariant and
\* is neither in waiting nor in passed.
Admissible(succ, w, p) ==
    Invariant(succ) /\ ~Contains(w, succ) /\ ~Contains(p, succ)

\* Mutant of PushBack: the successor is put at the front of waiting.
PushFront(w, succ) == <<succ>> \o w

\* waiting.push_back(succ)
PushBack(w, succ) == Append(w, succ)

\* std::deque<State_t> waiting{initial_state}
NewWaiting == <<initial_state>>

\* Mutant of NewPassed: passed kept across invocations, as a member would be.
NewPassedStale == passed

\* std::vector<State_t> passed{}
NewPassed == <<>>

\* std::map<State_t, State_t> trace{}
NewTrace == <<>>

Init ==
    /\ client = "graph"
    /\ initial_state = 0
    /\ search_order \in SearchOrders
    /\ cost_fn \in CostFunctions
    /\ initial_cost \in 0 .. MaxInitialCost
    \* The three-argument constructor: the default cost function, initial cost 0.
    /\ cost_fn = "default" => initial_cost = 0
    \* Depth-first and breadth-first order never read the cost members.
    /\ search_order # "cost_guided" => cost_fn = "default"
    \* A transition changes the state it is applied to.
    /\ transitions \in {f \in [Configs -> SuccLists] :
                           \A c \in Configs : ~Contains(f[c], c)}
    /\ invariant \in SUBSET Configs
    /\ goal \in SUBSET Configs
    /\ previous_cost = initial_cost
    /\ waiting = <<>>
    /\ passed = <<>>
    /\ trace = <<>>
    /\ curr_state = initial_state
    /\ pending = <<>>
    /\ pc = "ready"
    /\ solution = <<>>
    /\ selected = <<>>
    /\ calls = 0
    /\ history = <<>>

\* The client calls check(goal_pred, search_order): lines 75-81.
Check ==
    /\ pc \in {"ready", "returned", "thrown"}
    /\ calls < MaxCalls
    /\ calls' = calls + 1
    /\ waiting' = NewWaiting
    /\ passed' = NewPassed
    /\ trace' = NewTrace
    /\ curr_state' = initial_state
    /\ pending' = <<>>
    /\ solution' = <<>>
    /\ selected' = <<>>
    /\ pc' = "while"
    /\ UNCHANGED <<members, args, previous_cost, history>>

\* The while condition fails: throw new std::logic_error (line 101).
Throw ==
    /\ pc = "while"
    /\ WaitingEmpty(waiting)
    /\ pc' = "thrown"
    /\ history' = Append(history, [outcome |-> "thrown", solution |-> <<>>])
    /\ UNCHANGED <<members, args, previous_cost, locals, solution, selected, calls>>

\* popstate returns a state the goal predicate accepts: lines 84-86.
ReturnSolution ==
    /\ pc = "while"
    /\ ~WaitingEmpty(waiting)
    /\ LET p == popstate(waiting, search_order, previous_cost)
           sol == get_solution_from_trace(trace, p.state)
       IN  /\ goal_pred(p.state)
           /\ waiting' = p.waiting
           /\ previous_cost' = p.previous_cost
           /\ curr_state' = p.state
           /\ selected' = Append(selected, p.state)
           /\ solution' = sol
           /\ history' = Append(history, [outcome |-> "returned", solution |-> sol])
    /\ pc' = "returned"
    /\ UNCHANGED <<members, args, passed, trace, pending, calls>>

\* Expand without the goal test: whatever popstate returns may be expanded.
ExpandUntested ==
    /\ pc = "while"
    /\ ~WaitingEmpty(waiting)
    /\ LET p == popstate(waiting, search_order, previous_cost)
       IN  /\ waiting' = p.waiting
           /\ previous_cost' = p.previous_cost
           /\ curr_state' = p.state
           /\ selected' = Append(selected, p.state)
           /\ passed' = Append(passed, p.state)
           /\ pending' = successors_function(p.state)
           /\ pc' = IF successors_function(p.state) = <<>> THEN "while" ELSE "for"
    /\ UNCHANGED <<members, args, trace, solution, calls, history>>

\* popstate returns a state that is no goal: it is pushed to passed and the for
\* loop over its successors starts (lines 84-91).
Expand ==
    /\ pc = "while"
    /\ ~WaitingEmpty(waiting)
    /\ LET p == popstate(waiting, search_order, previous_cost)
       IN  /\ ~goal_pred(p.state)
           /\ waiting' = p.waiting
           /\ previous_cost' = p.previous_cost
           /\ curr_state' = p.state
           /\ selected' = Append(selected, p.state)
           /\ passed' = Append(passed, p.state)
           /\ pending' = successors_function(p.state)
           /\ pc' = IF successors_function(p.state) = <<>> THEN "while" ELSE "for"
    /\ UNCHANGED <<members, args, trace, solution, calls, history>>

\* The for loop left at the first successor that is not admitted.
ConsiderUntilRejected ==
    /\ pc = "for"
    /\ LET succ == Head(pending)
       IN  IF Admissible(succ, waiting, passed)
           THEN /\ trace' = TracePut(trace, succ, curr_state)
                /\ waiting' = PushBack(waiting, succ)
                /\ pending' = Tail(pending)
                /\ pc' = IF Tail(pending) = <<>> THEN "while" ELSE "for"
           ELSE /\ pending' = <<>>
                /\ pc' = "while"
                /\ UNCHANGED <<trace, waiting>>
    /\ UNCHANGED <<members, args, previous_cost, passed, curr_state, solution,
                   selected, calls, history>>

\* One iteration of the for loop, on the next successor (lines 91-99).
Consider ==
    /\ pc = "for"
    /\ LET succ == Head(pending)
       IN  IF Admissible(succ, waiting, passed)
           THEN /\ trace' = TracePut(trace, succ, curr_state)
                /\ waiting' = PushBack(waiting, succ)
           ELSE UNCHANGED <<trace, waiting>>
    /\ pending' = Tail(pending)
    /\ pc' = IF Tail(pending) = <<>> THEN "while" ELSE "for"
    /\ UNCHANGED <<members, args, previous_cost, passed, curr_state, solution,
                   selected, calls, history>>

Next == Check \/ Throw \/ ReturnSolution \/ Expand \/ Consider

Spec == Init /\ [][Next]_vars

\* check runs to completion: once called, its loop takes its next step until it
\* returns or throws.  Nothing obliges the client to call check again.
Run == Throw \/ ReturnSolution \/ Expand \/ Consider

FairSpec == Spec /\ WF_vars(Run)

\* ------------------------------------------- the orders on larger state spaces
\* An order shows what it is when the frontier holds configurations admitted
\* by different expansions, which takes four configurations.  OrderSpec runs
\* check once, under each order, on every state space of NumOrderConfigs
\* configurations with up to MaxOut transitions each; the invariant accepts
\* them all, the cost function is the default one, and the goal is the last
\* configuration or none.
OrderConfigs == 0 .. (NumOrderConfigs - 1)

OrderSuccLists ==
    UNION {{s \in [1 .. n -> OrderConfigs] : \A i, j \in 1 .. n : i # j => s[i] # s[j]}
           : n \in 0 .. MaxOut}

OrderInit ==
    /\ client = "graph"
    /\ initial_state = 0
    /\ search_order \in SearchOrders
    /\ cost_fn = "default"
    /\ initial_cost = 0
    /\ transitions \in {f \in [OrderConfigs -> OrderSuccLists] :
                           \A c \in OrderConfigs : ~Contains(f[c], c)}
    /\ invariant = OrderConfigs
    /\ goal \in {{}, {NumOrderConfigs - 1}}
    /\ previous_cost = initial_cost
    /\ waiting = <<>>
    /\ passed = <<>>
    /\ trace = <<>>
    /\ curr_state = initial_state
    /\ pending = <<>>
    /\ pc = "ready"
    /\ solution = <<>>
    /\ selected = <<>>
    /\ calls = 0
    /\ history = <<>>

\* The client calls check once on the engine it has constructed.
CheckOnce == pc = "ready" /\ Check

OrderNext == CheckOnce \/ Throw \/ ReturnSolution \/ Expand \/ Consider

OrderSpec == OrderInit /\ [][OrderNext]_vars

\* ------------------------------------------------------------- termination
\* One call of check that runs to completion, under each order, on every state
\* space of Spec; the cost function, which only ranks the frontier, is the
\* default one.
TerminationInit == Init /\ cost_fn = "default"

TerminationSpec == TerminationInit /\ [][OrderNext]_vars /\ WF_vars(Run)

\* ------------------------------------------------- check as a pure function
\* check under breadth-first order, computed from the inputs alone: the for
\* loop over the successors of curr (lines 91-99), then the while loop (lines
\* 82-101), started on the locals as check constructs them.
RECURSIVE ForLoop(_, _, _, _, _)
ForLoop(succs, curr, w, p, t) ==
    IF succs = <<>>
    THEN [waiting |-> w, trace |-> t]
    ELSE IF Admissible(Head(succs), w, p)
         THEN ForLoop(Tail(succs), curr, PushBack(w, Head(succs)), p,
                      TracePut(t, Head(succs), curr))
         ELSE ForLoop(Tail(succs), curr, w, p, t)

\* One evaluation of the while condition and, when it holds, one iteration of
\* the while loop; r holds the locals, how the call stands ("while" as long
\* as the loop runs), the states popstate returned and the returned sequence.
WhileLoop(r) ==
    IF r.outcome # "while"
    THEN r
    ELSE IF WaitingEmpty(r.waiting)
    THEN [r EXCEPT !.outcome = "thrown"]
    ELSE LET pop == PopFront(r.waiting, initial_cost)
         IN  IF goal_pred(pop.state)
             THEN [r EXCEPT !.outcome = "returned",
                            !.waiting = pop.waiting,
                            !.selected = Append(r.selected, pop.state),
                            !.solution = get_solution_from_trace(r.trace, pop.state)]
             ELSE LET f == ForLoop(successors_function(pop.state), pop.state,
                                   pop.waiting, Append(r.passed, pop.state), r.trace)
                  IN  [r EXCEPT !.waiting = f.waiting,
                                !.passed = Append(r.passed, pop.state),
                                !.trace = f.trace,
                                !.selected = Append(r.selected, pop.state)]

\* n evaluations of the while condition, or as many as it takes the call to
\* end; one half of them after the other.
RECURSIVE Iterate(_, _)
Iterate(n, r) ==
    IF n = 0 \/ r.outcome # "while" THEN r
    ELSE IF n = 1 THEN WhileLoop(r)
    ELSE Iterate(n - (n \div 2), Iterate(n \div 2, r))

\* check(goal_pred, breadth_first) as far as n evaluations of the while
\* condition take it.
BreadthFirstCheck(n) ==
    Iterate(n, [outcome |-> "while", waiting |-> NewWaiting, passed |-> NewPassed,
                trace |-> NewTrace, selected |-> <<>>, solution |-> <<>>])

\* ------------------------------------------------------ the client programs
\* The runs of each main(), in order, each on an engine constructed for it and
\* with the one call of check the program makes on it: crossing.cpp solve(); frogs.cpp explain(),
\* solve(2, depth_first) and solve(4); family.cpp solve(depth), solve(noise)
\* and solve(different noise).
Programs ==
    [crossing |->
        <<[order |-> "breadth_first", frogs |-> 0, cost |-> "default"]>>,
     frogs |->
        <<[order |-> "breadth_first", frogs |-> 2, cost |-> "default"],
          [order |-> "depth_first", frogs |-> 2, cost |-> "default"],
          [order |-> "breadth_first", frogs |-> 4, cost |-> "default"]>>,
     family |->
        <<[order |-> "cost_guided", frogs |-> 0, cost |-> "family_depth"],
          [order |-> "cost_guided", frogs |-> 0, cost |-> "family_noise"],
          [order |-> "cost_guided", frogs |-> 0, cost |-> "family_different_noise"]>>]

\* The initial state and the initial cost a program gives the constructor.
InitialState(program, run) ==
    CASE program = "crossing" -> crossing_initial
      [] program = "frogs" -> start(run.frogs)
      [] program = "family" -> family_initial

InitialCost(program) == IF program = "family" THEN family_initial_cost ELSE 0

\* One run of one program: solve() has constructed its engine.  Every run has
\* an engine of its own, so that no run sees what another one left behind.
MainInit ==
    /\ \E program \in DOMAIN Programs :
          \E k \in 1 .. Len(Programs[program]) :
             /\ client = program
             /\ initial_state = InitialState(program, Programs[program][k])
             /\ initial_cost = InitialCost(program)
             /\ cost_fn = Programs[program][k].cost
             /\ search_order = Programs[program][k].order
    \* The programs hand functions to the engine, not tables.
    /\ transitions = <<>>
    /\ invariant = {}
    /\ goal = {}
    /\ previous_cost = initial_cost
    /\ waiting = <<>>
    /\ passed = <<>>
    /\ trace = <<>>
    /\ curr_state = initial_state
    /\ pending = <<>>
    /\ pc = "ready"
    /\ solution = <<>>
    /\ selected = <<>>
    /\ calls = 0
    /\ history = <<>>

\* solve() calls check, once, on the engine it has constructed.
Solve == pc = "ready" /\ Check

\* The steps of the programs.  Their state spaces hold a goal state the search
\* reaches, so that the while loop is never left by the throw: the claims on
\* the programs state, and check, that the frontier is not empty at the loop
\* test.
MainNext == Solve \/ ReturnSolution \/ Expand \/ Consider

MainSpec == MainInit /\ [][MainNext]_vars

\* -------------------------------- cost-guided order under a constant cost
\* One cost-guided call of check with a cost function that does not look at
\* the state: the default cost function on every state space of OrderSpec,
\* and the depth cost of family.cpp on the family's state space.
ConstantCostInit ==
    \/ OrderInit /\ search_order = "cost_guided"
    \/ MainInit /\ cost_fn = "family_depth"

ConstantCostSpec == ConstantCostInit /\ [][OrderNext]_vars

\* ------------------------------------------- the family's transition system
\* The configurations of family.cpp that its transitions lead to from the
\* initial one, whether or not river_crossing_valid accepts them: curr_state
\* is the configuration at hand, and a step applies to a copy of it one of the
\* transitions the generator emits for it, as successors does.  check is not
\* called.
TransitionsInit == MainInit /\ client = "family" /\ cost_fn = "family_depth"

ApplyTransition ==
    /\ pc = "ready"
    /\ \E k \in 1 .. Len(successors_function(curr_state)) :
          curr_state' = successors_function(curr_state)[k]
    /\ UNCHANGED <<members, args, previous_cost, waiting, passed, trace, pending,
                   pc, solution, selected, calls, history>>

TransitionsSpec == TransitionsInit /\ [][ApplyTransition]_vars

\* ------------------------------------------------------------------- claims
\* What a solution sequence is, stated without the engine: sol starts at the
\* initial state, ends in a goal state, every step is a transition the successor
\* generator emits, and every state but the first upholds the invariant.
IsSolution(sol) ==
    /\ Len(sol) >= 1
    /\ sol[1] = initial_state
    /\ goal_pred(sol[Len(sol)])
    /\ \A i \in 1 .. (Len(sol) - 1) : Contains(successors_function(sol[i]), sol[i + 1])
    /\ \A i \in 2 .. Len(sol) : Invariant(sol[i])

\* C1: for every search order, a sequence check returns starts at the initial
\* configuration, ends in a configuration the goal predicate accepts, steps only
\* along transitions of the successor generator, and every configuration after
\* the first upholds the invariant.
C1_ReturnedIsSolution == pc = "returned" => IsSolution(solution)

\* A solution of three configurations was returned, under an invariant that
\* rejects some configuration.
C1_Witness ==
    /\ pc = "returned"
    /\ Len(solution) = 3
    /\ invariant # Configs

\* The configurations that end a sequence of k transitions from the initial
\* state whose states after the first all uphold the invariant.
RECURSIVE EndsOfPaths(_)
EndsOfPaths(k) ==
    IF k = 0
    THEN {initial_state}
    ELSE {c \in Configs : Invariant(c) /\ \E s \in EndsOfPaths(k - 1) :
                                              Contains(successors_function(s), c)}

\* The least number of transitions of any solution sequence, -1 when there is
\* none (a shortest one repeats no configuration).
RECURSIVE MinStepsFrom(_)
MinStepsFrom(k) ==
    IF k >= Cardinality(Configs) THEN -1
    ELSE IF \E c \in EndsOfPaths(k) : goal_pred(c) THEN k
    ELSE MinStepsFrom(k + 1)

MinSteps == MinStepsFrom(0)

\* C2: with breadth-first order the returned sequence has the least number of
\* transitions among all solution sequences.
C2_BreadthFirstMinimal ==
    (pc = "returned" /\ search_order = "breadth_first")
        => Len(solution) - 1 = MinSteps

\* Breadth-first order returned the goal state as a direct successor of the
\* initial state, after expanding another state that leads to it too: the
\* longer sequence through that state is a solution as well.
C2_Witness ==
    /\ pc = "returned"
    /\ search_order = "breadth_first"
    /\ Len(solution) = 2
    /\ \E s \in Range(passed) : /\ s # initial_state
                                /\ Contains(successors_function(s), solution[2])
                                /\ IsSolution(<<initial_state, s, solution[2]>>)

\* C3: check throws NoSolutionFound exactly when it finds the frontier empty and
\* no state it selected satisfied the goal predicate; it then returns no
\* sequence, and it throws once: after the throw nothing happens until the
\* client calls check again.
C3_ThrowsExactlyWhenExhausted ==
    [][ /\ (pc' = "thrown" /\ pc # "thrown")
            <=> (/\ pc = "while"
                 /\ waiting = <<>>
                 /\ \A i \in 1 .. Len(selected) : ~goal_pred(selected[i]))
        /\ pc' = "thrown" => solution' = <<>>
        /\ pc = "thrown" => (pc' = "while" /\ calls' = calls + 1)
        /\ Len(history') <= calls' ]_vars

\* check threw after selecting two configurations, neither of them a goal: the
\* only goal state is a successor of the second, and the invariant rejects it.
C3_Witness ==
    /\ pc = "thrown"
    /\ Len(selected) = 2
    /\ \E g \in Configs : /\ goal = {g}
                          /\ ~Invariant(g)
                          /\ Contains(successors_function(selected[2]), g)

\* Scenario D: the invariant rejects every configuration except the initial one.
ScenarioD == \A c \in Configs : Invariant(c) => c = initial_state

\* C4 as stated: in scenario D check returns no sequence, for every order.
C4_Original == ScenarioD => pc # "returned"

\* C4, amended: in scenario D, when the initial configuration does not satisfy
\* the goal predicate, check returns no sequence and does not loop: it selects
\* the initial configuration only, admits nothing, and every invocation ends
\* with the throw of NoSolutionFound, for every order.
C4_ScenarioDThrows ==
    /\ [](ScenarioD /\ ~goal_pred(initial_state)
            => /\ pc # "returned"
               /\ Len(selected) <= 1
               /\ trace = <<>>
               /\ (selected # <<>> => waiting = <<>>))
    /\ (ScenarioD /\ ~goal_pred(initial_state) /\ pc = "while") ~> (pc = "thrown")

\* In scenario D check threw after expanding an initial state that has a goal
\* state among its successors.
C4_Witness ==
    /\ ScenarioD
    /\ pc = "thrown"
    /\ ~goal_pred(initial_state)
    /\ \E g \in Configs : goal_pred(g) /\ Contains(successors_function(initial_state), g)

\* C5: the invocations of check on one instance, with the same goal predicate
\* and the same search order, all end alike: they return identical sequences
\* (or all throw), for every search order.
C5_SameSolutionEveryCall ==
    \A i, j \in 1 .. Len(history) : history[i] = history[j]

\* check is about to make the first selection of an invocation.
AtStart == pc = "while" /\ selected = <<>>

\* C6: at the first cost-guided selection of every invocation, the previous cost
\* handed to the cost function is the initial cost given at construction.
C6_CostStartsAtInitialCost ==
    (AtStart /\ search_order = "cost_guided") => previous_cost = initial_cost

\* C7: every invocation of check starts with a frontier holding the initial
\* configuration only, an empty explored set and an empty trace map, whatever
\* the invocations before it left behind.
C7_FreshRunState ==
    AtStart => /\ waiting = <<initial_state>>
               /\ passed = <<>>
               /\ trace = <<>>

\* The second invocation starts after a first one that returned a solution of
\* three configurations, so that it had expanded two and traced two.
C7_Witness ==
    /\ AtStart
    /\ calls = 2
    /\ Len(history) = 1
    /\ Len(history[1].solution) = 3

\* C8: in the expansion of the selected state curr_state, the candidate succ is
\* appended to the frontier, with trace[succ] = curr_state, if and only if the
\* invariant accepts it and it is neither in the frontier nor in the explored
\* set; any other candidate leaves frontier, explored set and trace map as
\* they are.
C8_AdmissionRule ==
    [][ pc = "for" =>
          LET succ == Head(pending)
          IN  IF /\ Invariant(succ)
                 /\ succ \notin Range(waiting)
                 /\ succ \notin Range(passed)
              THEN /\ waiting' = waiting \o <<succ>>
                   /\ DOMAIN trace' = (DOMAIN trace) \cup {succ}
                   /\ trace'[succ] = curr_state
                   /\ \A x \in (DOMAIN trace) \ {succ} : trace'[x] = trace[x]
                   /\ passed' = passed
              ELSE /\ waiting' = waiting
                   /\ trace' = trace
                   /\ passed' = passed ]_vars

\* An expansion is over that emitted two candidates: the first was admitted and
\* traced to the expanded state, the second, which the invariant accepts, was
\* dropped because it is in the explored set.
C8_Witness ==
    /\ pc = "while"
    /\ selected # <<>>
    /\ \E a, b \in Configs :
          /\ successors_function(curr_state) = <<a, b>>
          /\ a \in DOMAIN trace
          /\ trace[a] = curr_state
          /\ waiting # <<>>
          /\ waiting[Len(waiting)] = a
          /\ Invariant(b)
          /\ Contains(passed, b)

\* C9: no configuration is in the frontier and in the explored set at once, and
\* within one run a configuration in the explored set stays there and is not put
\* into the frontier again.
C9_FrontierExploredDisjoint ==
    /\ [](Range(waiting) \cap Range(passed) = {})
    /\ [][ ~AtStart' =>
             \A c \in Range(passed) : Contains(passed', c) /\ ~Contains(waiting', c) ]_vars

\* A state of the explored set was produced again by the expansion of another
\* state, upholds the invariant, and is not in the frontier.
C9_Witness ==
    /\ pc = "while"
    /\ selected # <<>>
    /\ \E c \in Range(passed) :
          /\ c # curr_state
          /\ Contains(successors_function(curr_state), c)
          /\ Invariant(c)
          /\ ~Contains(waiting, c)

\* C10: within one run no configuration is added to the explored set twice:
\* no configuration is expanded twice, under every search order.
C10_ExploredOnce ==
    \A i, j \in 1 .. Len(passed) : i # j => passed[i] # passed[j]

\* Every configuration was expanded, in a state graph with a cycle through the
\* initial state.
C10_Witness ==
    /\ Len(passed) = Cardinality(Configs)
    /\ pending = <<>>
    /\ \E c \in Configs : /\ Contains(successors_function(initial_state), c)
                          /\ Contains(successors_function(c), initial_state)

\* C11: within one run a trace entry, once written, is never written again:
\* every configuration that has an entry keeps it, with the predecessor that
\* first discovered it, and an entry is written only for a configuration that
\* had none, in the step that admits it to the frontier.
C11_TraceWrittenOnce ==
    [][ ~AtStart' =>
          /\ \A c \in DOMAIN trace : c \in DOMAIN trace' /\ trace'[c] = trace[c]
          /\ \A c \in (DOMAIN trace') \ (DOMAIN trace) :
                /\ pc = "for"
                /\ c = Head(pending)
                /\ ~Contains(waiting, c)
                /\ ~Contains(passed, c)
                /\ waiting' = waiting \o <<c>> ]_vars

\* A configuration with a trace entry was produced again by the expansion, now
\* over, of a state other than its recorded predecessor, and the invariant
\* accepts it; its entry still names the first predecessor.
C11_Witness ==
    /\ pc = "while"
    /\ selected # <<>>
    /\ \E c \in DOMAIN trace :
          /\ Contains(successors_function(curr_state), c)
          /\ Invariant(c)
          /\ trace[c] # curr_state
          /\ Contains(passed, trace[c])

\* The loop test of check finds a frontier that is not empty, and check has not
\* thrown.
NotExhausted == pc # "thrown" /\ (pc = "while" => ~WaitingEmpty(waiting))

\* The actors in travel in a configuration of crossing.cpp.
InTravel(actors) == {i \in 1 .. 3 : actors[i] = "travel"}

\* C12: in crossing.cpp, with is_valid as invariant, breadth-first check from
\* the configuration with all actors on shore1 finds a solution; the sequence
\* it returns has exactly 11 configurations, ends with all actors on shore2,
\* and alternates configurations with no actor in travel (the 1st, 3rd, ...)
\* with configurations with a single actor in travel (the 2nd, 4th, ...).
C12_CrossingElevenConfigurations ==
    (client = "crossing" /\ search_order = "breadth_first") =>
        /\ NotExhausted
        /\ pc = "returned" =>
              /\ Len(solution) = 11
              /\ solution[1] = <<"shore1", "shore1", "shore1">>
              /\ solution[Len(solution)] = <<"shore2", "shore2", "shore2">>
              /\ \A k \in 1 .. Len(solution) :
                    Cardinality(InTravel(solution[k])) = (k + 1) % 2

\* crossing.cpp has returned its solution: the goat is the first to travel, and
\* the first to reach shore2.
C12_Witness ==
    /\ client = "crossing"
    /\ pc = "returned"
    /\ Len(solution) >= 3
    /\ solution[2] = <<"shore1", "travel", "shore1">>
    /\ solution[3] = <<"shore1", "shore2", "shore1">>

\* C13: in frogs.cpp with two frogs per side and no invariant, breadth-first
\* check and depth-first check from GG_BB with goal BB_GG both find a solution,
\* and each returns a sequence of exactly 9 configurations that begins with
\* GG_BB and ends with BB_GG.
C13_FrogsNineConfigurations ==
    (client = "frogs" /\ Len(initial_state) = 5
        /\ search_order \in {"breadth_first", "depth_first"}) =>
        /\ initial_state = <<"green", "green", "empty", "brown", "brown">>
        /\ NotExhausted
        /\ pc = "returned" =>
              /\ Len(solution) = 9
              /\ solution[1] = <<"green", "green", "empty", "brown", "brown">>
              /\ solution[9] = <<"brown", "brown", "empty", "green", "green">>

\* Depth-first check has returned its solution for two frogs per side: its
\* first move is the last one the generator emits, a brown frog's step, where
\* breadth-first check starts with a green frog's step.
C13_Witness ==
    /\ client = "frogs"
    /\ search_order = "depth_first"
    /\ pc = "returned"
    /\ Len(solution) = 9
    /\ solution[2] = <<"green", "green", "brown", "empty", "brown">>
    /\ solution[9] = finish(2)

\* The index in sol of the first configuration of family.cpp that has person on
\* shore2, Len(sol) + 1 if there is none.
FirstOnShore2(sol, person) ==
    IF \E k \in 1 .. Len(sol) : sol[k].persons[person] = "shore2"
    THEN CHOOSE k \in 1 .. Len(sol) :
            /\ sol[k].persons[person] = "shore2"
            /\ \A j \in 1 .. (k - 1) : sol[j].persons[person] # "shore2"
    ELSE Len(sol) + 1

\* C14: in family.cpp, cost-guided order, an engine of its own for every run:
\* both runs with a noise cost find a solution; in the run whose cost adds 2
\* while son1 is on shore1 and 1 while son2 is, son1 is on shore2 by the 12th
\* configuration of the returned solution and before son2; in the run whose
\* cost adds 1 for son1 and 2 for son2, son1 is not yet on shore2 in the 12th
\* configuration, and son2 is there before him.  So son1 crosses at a strictly
\* lower index in the first run than in the second, and in each run the son
\* penalised by 2 crosses first.
C14_PenalisedSonCrossesFirst ==
    (client = "family" /\ cost_fn \in {"family_noise", "family_different_noise"}) =>
        /\ search_order = "cost_guided"
        /\ NotExhausted
        /\ (pc = "returned" /\ cost_fn = "family_noise") =>
              /\ FirstOnShore2(solution, son1) <= 12
              /\ FirstOnShore2(solution, son1) < FirstOnShore2(solution, son2)
              /\ FirstOnShore2(solution, son2) <= Len(solution)
        /\ (pc = "returned" /\ cost_fn = "family_different_noise") =>
              /\ FirstOnShore2(solution, son1) > 12
              /\ FirstOnShore2(solution, son2) < FirstOnShore2(solution, son1)
              /\ FirstOnShore2(solution, son1) <= Len(solution)

\* The run with the noise cost has returned its solution: the first passenger
\* the policeman takes across after the prisoner is son1, who steps on shore2
\* while son2 is still on shore1.
C14_Witness ==
    /\ client = "family"
    /\ cost_fn = "family_noise"
    /\ pc = "returned"
    /\ previous_cost.noise > 0
    /\ \E k \in 2 .. Len(solution) :
          /\ k = FirstOnShore2(solution, son1)
          /\ solution[k].persons[son2] = "shore1"
          /\ solution[k].persons[policeman] = "shore2"
          /\ solution[k - 1].boat.pos = "travel"

PassedIndex(c) == CHOOSE i \in 1 .. Len(passed) : passed[i] = c

EmitIndex(s, c) ==
    CHOOSE i \in 1 .. Len(successors_function(s)) :
        /\ successors_function(s)[i] = c
        /\ \A j \in 1 .. (i - 1) : successors_function(s)[j] # c

AdmittedBefore(a, b) ==
    IF a = initial_state THEN b # initial_state
    ELSE IF b = initial_state THEN FALSE
    ELSE \/ PassedIndex(trace[a]) < PassedIndex(trace[b])
         \/ /\ trace[a] = trace[b]
            /\ EmitIndex(trace[a], a) < EmitIndex(trace[b], b)

\* The successors the expansion of s has admitted.
AdmittedBy(s) ==
    {c \in Range(successors_function(s)) : c \in DOMAIN trace /\ trace[c] = s}

\* C16: with depth-first order the frontier is a stack: every selection takes
\* the configuration of the frontier that was admitted last, and only it; when
\* the expansion just finished has admitted successors, that is the one of them
\* the generator emitted last.
C16_DepthFirstIsStack ==
    [][ (pc = "while" /\ search_order = "depth_first" /\ waiting # <<>>) =>
          /\ Contains(waiting, curr_state')
          /\ \A c \in Range(waiting) \ {curr_state'} : AdmittedBefore(c, curr_state')
          /\ Range(waiting') = Range(waiting) \ {curr_state'}
          /\ (selected # <<>> /\ AdmittedBy(curr_state) # {}) =>
                /\ curr_state' \in AdmittedBy(curr_state)
                /\ \A c \in AdmittedBy(curr_state) :
                      EmitIndex(curr_state, c) <= EmitIndex(curr_state, curr_state')
      ]_vars

\* Depth-first order: the initial state emitted a then b and both were
\* admitted; b was selected first; its expansion admitted c, which was selected
\* next, while a, admitted before both, is still in the frontier.
C16_Witness ==
    /\ search_order = "depth_first"
    /\ Len(selected) = 3
    /\ \E a, b, c \in OrderConfigs :
          /\ successors_function(initial_state) = <<a, b>>
          /\ selected = <<initial_state, b, c>>
          /\ c \in DOMAIN trace
          /\ trace[c] = b
          /\ a \in DOMAIN trace
          /\ trace[a] = initial_state
          /\ Contains(waiting, a)

\* C17: with breadth-first order the frontier is a first-in first-out queue:
\* every selection takes the configuration of the frontier that was admitted
\* first, so that the configurations are selected in the order of their
\* admission, and whatever is still in the frontier was admitted after
\* everything selected so far.
C17_BreadthFirstIsQueue ==
    /\ [](search_order = "breadth_first" =>
            /\ \A i, j \in 1 .. Len(selected) :
                  i < j => AdmittedBefore(selected[i], selected[j])
            /\ \A i \in 1 .. Len(selected) : \A c \in Range(waiting) :
                  AdmittedBefore(selected[i], c))
    /\ [][ (pc = "while" /\ search_order = "breadth_first" /\ waiting # <<>>) =>
             /\ Contains(waiting, curr_state')
             /\ \A c \in Range(waiting) \ {curr_state'} : AdmittedBefore(curr_state', c)
             /\ Range(waiting') = Range(waiting) \ {curr_state'}
         ]_vars

\* Breadth-first order: the initial state emitted a then b and both were
\* admitted; the expansion of a admitted c; b, admitted before c, was selected
\* before c although c is the more recent one.
C17_Witness ==
    /\ search_order = "breadth_first"
    /\ Len(selected) = 4
    /\ \E a, b, c \in OrderConfigs :
          /\ successors_function(initial_state) = <<a, b>>
          /\ selected = <<initial_state, a, b, c>>
          /\ c \in DOMAIN trace
          /\ trace[c] = a

\* C18: the goal predicate is tested on a configuration when it is selected,
\* before anything else is done with it.  A selected goal configuration ends the
\* call: it is returned at the end of the solution, it is not put into the
\* explored set, and the successor generator is not called on it; any other
\* selected configuration is put into the explored set and expanded.  So no
\* goal configuration is ever explored.  When the initial configuration
\* satisfies the goal, under every order, check neither throws nor enters the
\* for loop, the only place where the invariant is evaluated: nothing is
\* explored or traced, and what it returns is the sequence [initial].
C18_GoalTestedAtSelection ==
    /\ [](\A i \in 1 .. Len(passed) : ~goal_pred(passed[i]))
    /\ [](pc = "for" => ~goal_pred(curr_state))
    /\ [](goal_pred(initial_state) =>
            /\ pc \in {"ready", "while", "returned"}
            /\ passed = <<>>
            /\ trace = <<>>
            /\ pending = <<>>
            /\ pc = "returned" => solution = <<initial_state>>)
    /\ [][ (pc = "while" /\ waiting # <<>>) =>
             IF goal_pred(curr_state')
             THEN /\ pc' = "returned"
                  /\ solution' # <<>>
                  /\ solution'[Len(solution')] = curr_state'
                  /\ passed' = passed
                  /\ pending' = pending
                  /\ trace' = trace
             ELSE /\ pc' \in {"while", "for"}
                  /\ passed' = Append(passed, curr_state')
                  /\ pending' = successors_function(curr_state')
                  /\ pc' = "while" => pending' = <<>>
         ]_vars

\* check returned a goal configuration that is a successor of the initial one
\* and has itself a successor that the invariant accepts and that was never
\* seen: the goal configuration was not expanded.
C18_Witness ==
    /\ pc = "returned"
    /\ Len(solution) = 2
    /\ goal_pred(curr_state)
    /\ ~Contains(passed, curr_state)
    /\ \E c \in Range(successors_function(curr_state)) :
          /\ Invariant(c)
          /\ c # initial_state
          /\ c \notin DOMAIN trace

\* Following the trace entries backward from c leads to the initial
\* configuration, through configurations that all have an entry and without
\* coming to one of visited, or to any configuration twice.
RECURSIVE WalkReachesInitial(_, _)
WalkReachesInitial(c, visited) ==
    IF c = initial_state THEN TRUE
    ELSE IF c \in visited \/ c \notin DOMAIN trace THEN FALSE
    ELSE WalkReachesInitial(trace[c], visited \cup {c})

\* C19: at every point of a run, the initial configuration has no trace
\* entry; every other configuration in the frontier, in the explored set or
\* just selected has one; from every configuration with an entry the entries
\* lead back to the initial configuration in finitely many steps, without
\* coming to a configuration twice.  So the backward walk of
\* get_solution_from_trace ends at the initial configuration: the returned
\* sequence starts there, each of its elements is the trace entry of the next,
\* and none occurs twice.
C19_TraceLeadsToInitial ==
    /\ initial_state \notin DOMAIN trace
    /\ \A c \in (Range(waiting) \cup Range(passed) \cup Range(selected)) :
          c # initial_state => c \in DOMAIN trace
    /\ \A c \in DOMAIN trace : WalkReachesInitial(c, {})
    /\ pc = "returned" =>
          /\ solution[1] = initial_state
          /\ solution[Len(solution)] = curr_state
          /\ \A k \in 1 .. (Len(solution) - 1) :
                /\ solution[k + 1] \in DOMAIN trace
                /\ solution[k] = trace[solution[k + 1]]
          /\ \A j, k \in 1 .. Len(solution) : j # k => solution[j] # solution[k]

\* Every configuration was expanded along a chain initial, a, b of trace
\* entries, and b has a transition back to the initial configuration, which
\* got no entry from it.
C19_Witness ==
    /\ pc \in {"while", "thrown"}
    /\ pending = <<>>
    /\ \E a, b \in DOMAIN trace :
          /\ trace[a] = initial_state
          /\ trace[b] = a
          /\ Contains(passed, b)
          /\ Contains(successors_function(b), initial_state)
          /\ Invariant(initial_state)

\* The configurations that can be reached from the initial one through
\* successors the invariant accepts.
ReachableConfigs == UNION {EndsOfPaths(k) : k \in 0 .. (Cardinality(Configs) - 1)}

\* C20: on a finite state space, with or without cycles, and for every order,
\* every invocation of check ends: it returns a sequence or throws
\* NoSolutionFound.  It expands reachable configurations only, and never more
\* of them than there are.
C20_CheckTerminates ==
    /\ [](/\ Range(passed) \subseteq ReachableConfigs
          /\ Len(passed) <= Cardinality(ReachableConfigs))
    /\ (pc \in {"while", "for"}) ~> (pc \in {"returned", "thrown"})

\* check threw after expanding every reachable configuration, once each, on a
\* state space that has a cycle through the initial configuration and a
\* configuration out of reach, which the invariant rejects.
C20_Witness ==
    /\ pc = "thrown"
    /\ Len(passed) = Cardinality(ReachableConfigs)
    /\ Len(passed) = 2
    /\ Contains(successors_function(passed[2]), initial_state)
    /\ \E c \in Configs : ~Invariant(c) /\ Contains(successors_function(passed[2]), c)


\* What the program prints of a returned sequence: one line for every
\* configuration.
Printed(sol) == [k \in 1 .. Len(sol) |-> print_stones(sol[k])]

\* C21: in frogs.cpp with two frogs per side, the sequence breadth-first check
\* returns prints as GG_BB, G_GBB, GBG_B, GBGB_, GB_BG, _BGBG, B_GBG, BBG_G,
\* BB_GG and the one depth-first check returns prints as GG_BB, GGB_B, G_BGB,
\* _GBGB, BG_GB, BGBG_, BGB_G, B_BGG, BB_GG: the lines of the sample output;
\* both runs find their solution.
C21_FrogsSampleOutput ==
    (client = "frogs" /\ initial_state = start(2)) =>
        /\ NotExhausted
        /\ (pc = "returned" /\ search_order = "breadth_first") =>
              Printed(solution) = sample_breadth_first
        /\ (pc = "returned" /\ search_order = "depth_first") =>
              Printed(solution) = sample_depth_first

\* Breadth-first check has returned its solution for two frogs per side: its
\* first move is the first one the generator emits, a green frog's step, and
\* the sequence differs from the depth-first one of the sample output.
C21_Witness ==
    /\ client = "frogs"
    /\ initial_state = start(2)
    /\ search_order = "breadth_first"
    /\ pc = "returned"
    /\ Len(solution) = 9
    /\ print_stones(solution[2]) = <<"G", "_", "G", "B", "B">>
    /\ Printed(solution) # sample_depth_first


\* C22: in frogs.cpp with four frogs per side, breadth-first check from
\* GGGG_BBBB with goal BBBB_GGGG finds a solution, and the sequence it returns
\* has exactly 25 configurations, the first GGGG_BBBB and the last BBBB_GGGG.
C22_FourFrogsTwentyFiveConfigurations ==
    (client = "frogs" /\ Len(initial_state) = 9 /\ search_order = "breadth_first") =>
        /\ print_stones(initial_state) = <<"G", "G", "G", "G", "_", "B", "B", "B", "B">>
        /\ NotExhausted
        /\ pc = "returned" =>
              /\ Len(solution) = 25
              /\ print_stones(solution[1]) =
                    <<"G", "G", "G", "G", "_", "B", "B", "B", "B">>
              /\ print_stones(solution[25]) =
                    <<"B", "B", "B", "B", "_", "G", "G", "G", "G">>

\* solve(4) has returned its solution: halfway, at the 13th configuration, the
\* frogs alternate around the empty stone as in the sample output.
C22_Witness ==
    /\ client = "frogs"
    /\ initial_state = start(4)
    /\ search_order = "breadth_first"
    /\ pc = "returned"
    /\ Len(solution) = 25
    /\ print_stones(solution[13]) = <<"G", "B", "G", "B", "_", "B", "G", "B", "G">>


\* Some goal configuration can be reached from the initial one through
\* successors the invariant accepts.
GoalReachable == \E c \in ReachableConfigs : goal_pred(c)

\* C23: when some goal configuration is reachable from the initial
\* configuration by transitions through configurations the invariant accepts
\* (the state space being finite), check, under each of the three orders,
\* never fails with NoSolutionFound, and every invocation returns a solution
\* sequence.
C23_Completeness ==
    /\ [](GoalReachable => pc # "thrown")
    /\ [](GoalReachable /\ pc = "returned" => IsSolution(solution))
    /\ (GoalReachable /\ pc \in {"while", "for"}) ~> (pc = "returned")

\* check returned a goal configuration that the initial configuration emits
\* second, after a first successor that the invariant rejected: the for loop
\* went on after the rejection.
C23_Witness ==
    /\ pc = "returned"
    /\ GoalReachable
    /\ Len(successors_function(initial_state)) = 2
    /\ ~Invariant(successors_function(initial_state)[1])
    /\ solution = <<initial_state, successors_function(initial_state)[2]>>


\* What breadth-first check does on the same inputs in as many evaluations of
\* its while condition as the call at hand has made when it has ended.
Reference == BreadthFirstCheck(Len(selected) + 1)

\* C24: under cost-guided order with a cost function whose result does not
\* depend on the configuration (the default constant cost, the depth cost of
\* family.cpp), every selection takes the front of the frontier and removes
\* only it, and the call ends as breadth-first check ends on the same inputs:
\* same outcome, same configurations selected in the same order, same
\* returned sequence.
C24_ConstantCostIsBreadthFirst ==
    /\ [](cost_fn \in {"default", "family_depth"} /\ search_order = "cost_guided")
    /\ [][(pc = "while" /\ selected' # selected) =>
             /\ selected' = Append(selected, waiting[1])
             /\ curr_state' = waiting[1]
             /\ waiting' = Tail(waiting)]_vars
    /\ [](pc \in {"returned", "thrown"} =>
             /\ Reference.outcome = pc
             /\ Reference.selected = selected
             /\ Reference.solution = solution
             /\ Reference.waiting = waiting
             /\ Reference.passed = passed
             /\ Reference.trace = trace)

\* A cost-guided call under the default cost returned a goal configuration
\* taken from the front of a frontier that held another configuration behind
\* it, after two other selections.
C24_Witness ==
    /\ search_order = "cost_guided"
    /\ cost_fn = "default"
    /\ pc = "returned"
    /\ Len(selected) >= 3
    /\ waiting # <<>>
    /\ solution = Reference.solution


\* No configuration occurs twice in sol.
SimplePath(sol) == Cardinality(Range(sol)) = Len(sol)

\* C25: a sequence check returns never holds the same configuration twice,
\* under every order, also on state spaces with cycles; so it is never longer
\* than there are configurations in the trace map and the initial one.
C25_SolutionIsSimplePath ==
    /\ pc = "returned" =>
          /\ SimplePath(solution)
          /\ Len(solution) <= Cardinality(DOMAIN trace) + 1
    /\ \A k \in 1 .. Len(history) : SimplePath(history[k].solution)

\* check returned a sequence through all four configurations, the third of
\* which has a transition back to the second: the cycle is not in the sequence.
C25_Witness ==
    /\ pc = "returned"
    /\ Len(solution) = 4
    /\ Contains(successors_function(solution[3]), solution[2])
    /\ SimplePath(solution)


\* The persons on board in configuration s of family.cpp.
OnBoard(s) == {i \in 1 .. 8 : s.persons[i] = "onboard"}

\* C26: in every configuration of family.cpp that transitions lead to from
\* the initial one, boat.passengers is the number of persons on board, so
\* that a person leaving the boat never decrements a count of 0; and every
\* configuration river_crossing_valid accepts has boat.passengers <=
\* boat.capacity.
C26_PassengersCountOnBoard ==
    /\ curr_state.boat.passengers = Cardinality(OnBoard(curr_state))
    /\ \A i \in OnBoard(curr_state) : curr_state.boat.passengers > 0
    /\ curr_state.boat.passengers < Uint16 - 1
    /\ river_crossing_valid(curr_state) =>
          curr_state.boat.passengers <= curr_state.boat.capacity

\* The boat is back at shore1 with a single passenger, after it has carried
\* persons to shore2 and left them there: the count was reset on arrival and
\* counted up and down since.
C26_Witness ==
    /\ client = "family"
    /\ pc = "ready"
    /\ curr_state.boat.pos = "shore1"
    /\ curr_state.boat.passengers = 1
    /\ Cardinality(OnBoard(curr_state)) = 1
    /\ Cardinality({i \in 1 .. 8 : curr_state.persons[i] = "shore2"}) = 3
    /\ river_crossing_valid(curr_state)

=============================================================================
